---- MODULE Spec2Model ----
(***************************************************************************)
(* openstack_client_exporter: the scrape handler (metricsHandler), the     *)
(* step timer (step), the naming service (createName), the two probes and  *)
(* the garbage collector, as one state machine.                            *)
(*                                                                         *)
(* The repository holds two builds of the program: src/main.go (constants, *)
(* a per-request "timeout" query parameter, both probes always started)    *)
(* and src/unnamed/part_000 (command-line flags, probes that can be        *)
(* disabled, createName).  The build is chosen once, by Main.              *)
(*                                                                         *)
(* Time is the wall clock in seconds.  Strings that the program builds or  *)
(* parses (resource names, duration strings) are sequences of one-         *)
(* character strings, so that formatting and parsing are computed.         *)
(***************************************************************************)
EXTENDS Integers, Sequences, FiniteSets, TLC

VARIABLES
    mainpc,     \* position of main(): "start", "serving" or "exited"
    cfg,        \* the build and its configuration (constants or parsed flags)
    now,        \* wall clock, seconds
    inventory,  \* the provider's resources: records [kind, name, createdAt]
    gc,         \* the garbage collector goroutine
    req,        \* per request slot: the handler's locals (ctx, wg, position)
    probe,      \* per request slot and probe: the probe goroutine
    timing,     \* per request slot and probe: the registry's step gauges, as
                \* the steps set so far and the value of the gauge set last
    response,   \* per request slot: whether the response was emitted, and its
                \* body
    scrapes     \* number of requests accepted so far

vars == <<mainpc, cfg, now, inventory, gc, req, probe, timing, response, scrapes>>

----------------------------------------------------------------------------
(* Bounds of the model *)

\* Wall-clock second at which the process starts.
StartTime == 1800
\* Seconds by which one Tick advances the wall clock.
TickSeconds == 1000
\* Number of Ticks in the modelled horizon.
MaxTicks == 1
\* Number of scrape requests accepted in one behaviour.
MaxScrapes == 1
\* Number of distinct random suffixes tools.RandomString can draw.
MaxSuffix == 2
\* Number of provider deletes that fail in one sweep.
MaxFailures == 1
\* Number of request slots (requests that can be in flight at once).
MaxSlots == 2

MaxTime == StartTime + MaxTicks * TickSeconds

\* Further clock steps in the specification that follows the collector over
\* several sleeps.
MaxLateTicks == 1

Horizon == MaxTime + MaxLateTicks * TickSeconds

\* Number of sleeps of the collector in the specification that follows the
\* clock sleep by sleep.
MaxSleeps == 2

----------------------------------------------------------------------------
(* Program constants *)

defaultRequestTimeout == 59
garbageCollectorSleep == 60
garbageCollectorResourceAge == 900

resourceTag ==
    <<"o","p","e","n","s","t","a","c","k","-",
      "c","l","i","e","n","t","-",
      "e","x","p","o","r","t","e","r">>

----------------------------------------------------------------------------
(* Strings *)

Digits == <<"0","1","2","3","4","5","6","7","8","9">>

IsDigit(c) == \E i \in 1..10 : Digits[i] = c

DigitValue(c) == (CHOOSE i \in 1..10 : Digits[i] = c) - 1

RECURSIVE FormatNat(_)
FormatNat(n) ==
    IF n < 10 THEN <<Digits[n + 1]>>
    ELSE FormatNat(n \div 10) \o <<Digits[(n % 10) + 1]>>

\* strconv.FormatInt(n, 10)
FormatInt(n) == IF n < 0 THEN <<"-">> \o FormatNat(-n) ELSE FormatNat(n)

RECURSIVE DigitsValue(_)
DigitsValue(s) ==
    IF Len(s) = 0 THEN 0
    ELSE 10 * DigitsValue(SubSeq(s, 1, Len(s) - 1)) + DigitValue(s[Len(s)])

AllDigits(s) == Len(s) > 0 /\ \A i \in 1..Len(s) : IsDigit(s[i])

\* strconv.ParseInt(s, 10, 64): an optional sign, then one or more digits.
ParseInt(s) ==
    LET signed == Len(s) > 0 /\ s[1] \in {"+", "-"}
        body   == IF signed THEN SubSeq(s, 2, Len(s)) ELSE s
    IN  IF AllDigits(body)
        THEN [ok  |-> TRUE,
              val |-> IF signed /\ s[1] = "-" THEN -DigitsValue(body)
                      ELSE DigitsValue(body)]
        ELSE [ok |-> FALSE, val |-> 0]

\* strings.Split(s, sep) for a one-character separator.
RECURSIVE Split(_, _)
Split(s, sep) ==
    IF \A i \in 1..Len(s) : s[i] # sep THEN <<s>>
    ELSE LET k == CHOOSE i \in 1..Len(s) :
                      s[i] = sep /\ \A j \in 1..(i - 1) : s[j] # sep
         IN  <<SubSeq(s, 1, k - 1)>> \o Split(SubSeq(s, k + 1, Len(s)), sep)

\* strings.Join(parts, sep)
RECURSIVE Join(_, _)
Join(parts, sep) ==
    IF Len(parts) = 0 THEN <<>>
    ELSE IF Len(parts) = 1 THEN parts[1]
    ELSE parts[1] \o <<sep>> \o Join(Tail(parts), sep)

----------------------------------------------------------------------------
(* Naming service *)

alphanum ==
    <<"0","1","2","3","4","5","6","7","8","9",
      "A","B","C","D","E","F","G","H","I","J","K","L","M",
      "N","O","P","Q","R","S","T","U","V","W","X","Y","Z",
      "a","b","c","d","e","f","g","h","i","j","k","l","m",
      "n","o","p","q","r","s","t","u","v","w","x","y","z">>

\* tools.RandomString("", 8): eight characters of alphanum.  The random bytes
\* are derived from a seed; seed 0 gives the all-digit suffix "01234567".
RandomString(seed) ==
    [i \in 1..8 |-> alphanum[((seed * 37 + (i - 1) * (seed + 1)) % 62) + 1]]

Seeds == 0..(MaxSuffix - 1)

\* A slip that drops the separator between the tag and the random suffix.
createName_NoSeparator(t, seed) ==
    resourceTag \o RandomString(seed) \o <<"-">> \o FormatInt(t)

\* A slip that embeds the timestamp in milliseconds.
createName_Millis(t, seed) ==
    resourceTag \o <<"-">> \o RandomString(seed) \o <<"-">> \o FormatInt(t * 1000)

\* createName() called at wall-clock second t with the given random draw.
createName(t, seed) ==
    resourceTag \o <<"-">> \o RandomString(seed) \o <<"-">> \o FormatInt(t)

\* What the collector recovers from a name: the tag segment (everything
\* before the last two "-"-separated segments) and the timestamp (the last
\* segment).
ParseName(name) ==
    LET parts == Split(name, "-")
        n     == Len(parts)
    IN  IF n < 3 THEN [ok |-> FALSE, tag |-> <<>>, ts |-> 0]
        ELSE LET ts == ParseInt(parts[n])
             IN  [ok  |-> ts.ok,
                  tag |-> Join(SubSeq(parts, 1, n - 2), "-"),
                  ts  |-> ts.val]

----------------------------------------------------------------------------
(* Unsigned integers beyond the range of the model's integers, as sequences
   of decimal digits, most significant first, without leading zeros; the
   empty sequence is zero.  time.ParseDuration computes in uint64
   nanoseconds.  The operators look carries up rather than propagate them,
   and halve their work where they recurse, so that evaluating them nests
   only a few levels deep whatever the length of the numbers. *)

\* a without its leading zeros
BigNorm(a) ==
    IF \A i \in 1..Len(a) : a[i] = 0 THEN <<>>
    ELSE SubSeq(a, CHOOSE i \in 1..Len(a) :
                       a[i] # 0 /\ \A j \in 1..(i - 1) : a[j] = 0, Len(a))

\* The number a run of digit characters denotes.
BigOfDigits(s) == BigNorm([i \in 1..Len(s) |-> DigitValue(s[i])])

BigOfNat(n) == BigOfDigits(FormatNat(n))

\* a < b
BigLess(a, b) ==
    IF Len(a) # Len(b) THEN Len(a) < Len(b)
    ELSE \E i \in 1..Len(a) : a[i] < b[i] /\ \A j \in 1..(i - 1) : a[j] = b[j]

\* The digit of a at 10^p
BigDigit(a, p) == IF p < Len(a) THEN a[Len(a) - p] ELSE 0

\* Whether a + b carries out of the digit at 10^p: some digit at or below
\* it sums to ten or more, and every digit between sums to nine.
AddCarries(a, b, p) ==
    \E j \in 0..p :
        /\ BigDigit(a, j) + BigDigit(b, j) >= 10
        /\ \A k \in (j + 1)..p : BigDigit(a, k) + BigDigit(b, k) = 9

AddDigit(a, b, p) ==
    (BigDigit(a, p) + BigDigit(b, p)
       + IF p > 0 /\ AddCarries(a, b, p - 1) THEN 1 ELSE 0) % 10

BigAddLen(a, b) == (IF Len(a) > Len(b) THEN Len(a) ELSE Len(b)) + 1

\* a + b
BigAdd(a, b) ==
    BigNorm([i \in 1..BigAddLen(a, b) |-> AddDigit(a, b, BigAddLen(a, b) - i)])

\* Whether a - b borrows from the digit at 10^(p+1).
SubBorrows(a, b, p) ==
    \E j \in 0..p :
        /\ BigDigit(a, j) < BigDigit(b, j)
        /\ \A k \in (j + 1)..p : BigDigit(a, k) = BigDigit(b, k)

SubDigit(a, b, p) ==
    (10 + BigDigit(a, p) - BigDigit(b, p)
       - IF p > 0 /\ SubBorrows(a, b, p - 1) THEN 1 ELSE 0) % 10

\* a - b, for a >= b
BigSub(a, b) == BigNorm([i \in 1..Len(a) |-> SubDigit(a, b, Len(a) - i)])

\* 2 * a: a digit doubles to an even digit, and takes a carry of one from a
\* digit of five or more to its right.
DoubleDigit(a, p) ==
    ((2 * BigDigit(a, p)) % 10) + IF p > 0 /\ BigDigit(a, p - 1) >= 5 THEN 1 ELSE 0

BigDouble(a) == BigNorm([i \in 1..(Len(a) + 1) |-> DoubleDigit(a, Len(a) + 1 - i)])

\* a * k, for a small k
RECURSIVE BigMul(_, _)
BigMul(a, k) ==
    IF k = 0 \/ a = <<>> THEN <<>>
    ELSE IF k = 1 THEN a
    ELSE IF k % 2 = 0 THEN BigDouble(BigMul(a, k \div 2))
    ELSE BigAdd(BigDouble(BigMul(a, k \div 2)), a)

\* a * 10^n
BigShift(a, n) == IF Len(a) = 0 THEN a ELSE a \o [i \in 1..n |-> 0]

\* a \div 10^n
BigDropLast(a, n) == IF Len(a) <= n THEN <<>> ELSE SubSeq(a, 1, Len(a) - n)

\* a % 10^n # 0
BigHasLow(a, n) ==
    \E i \in 1..Len(a) : i > Len(a) - n /\ a[i] # 0

\* The value of a number of at most nine digits.
RECURSIVE BigToNat(_)
BigToNat(a) ==
    IF Len(a) = 0 THEN 0
    ELSE 10 * BigToNat(SubSeq(a, 1, Len(a) - 1)) + a[Len(a)]

\* 1 << 63 and 1 << 64
Two63 == <<9,2,2,3,3,7,2,0,3,6,8,5,4,7,7,5,8,0,8>>
Two64 == <<1,8,4,4,6,7,4,4,0,7,3,7,0,9,5,5,1,6,1,6>>

\* (1<<63 - 1) / 10
MaxInt64Tenth == <<9,2,2,3,3,7,2,0,3,6,8,5,4,7,7,5,8,0>>

\* uint64 addition: wraps at 1 << 64.  Both arguments are at most 1 << 63.
Wrap64(x) == IF x = Two64 THEN <<>> ELSE x

Uint64Add(a, b) == Wrap64(BigAdd(a, b))

\* a times the digits lo..hi of b, each at its place
RECURSIVE BigTimesRange(_, _, _, _)
BigTimesRange(a, b, lo, hi) ==
    IF lo = hi THEN BigShift(BigMul(a, b[lo]), Len(b) - lo)
    ELSE BigAdd(BigTimesRange(a, b, lo, (lo + hi) \div 2),
                BigTimesRange(a, b, (lo + hi) \div 2 + 1, hi))

\* a * b
BigTimes(a, b) ==
    IF a = <<>> \/ b = <<>> THEN <<>> ELSE BigTimesRange(a, b, 1, Len(b))

\* How often b goes into r, for r < 10 * b, and what is left.
RECURSIVE QuotDigit(_, _, _)
QuotDigit(r, b, q) ==
    IF BigLess(r, b) THEN [q |-> IF q = 0 THEN <<>> ELSE <<q>>, r |-> r]
    ELSE QuotDigit(BigSub(r, b), b, q + 1)

\* Long division: [q |-> a \div b, r |-> a % b], for b > 0.  The m lowest
\* digits of a are brought down at once on the remainder of the digits
\* above them.
RECURSIVE BigDivMod(_, _)

\* high is the division of the upper digits, low the one of its remainder
\* followed by the m lower digits.
BigDivJoin(high, low, m) ==
    [q |-> BigAdd(BigShift(high.q, m), low.q), r |-> low.r]

BigDivLow(high, lower, b) ==
    BigDivJoin(high, BigDivMod(BigNorm(high.r \o lower), b), Len(lower))

BigDivSplit(a, b, m) ==
    BigDivLow(BigDivMod(BigNorm(SubSeq(a, 1, Len(a) - m)), b),
              SubSeq(a, Len(a) - m + 1, Len(a)), b)

BigDivMod(a, b) ==
    IF BigLess(a, BigShift(b, 1)) THEN QuotDigit(a, b, 0)
    ELSE BigDivSplit(a, b, (Len(a) - Len(b) + 1) \div 2)

\* a * 2^s
RECURSIVE BigShl(_, _)
BigShl(a, s) ==
    IF s = 0 \/ a = <<>> THEN a
    ELSE IF s = 1 THEN BigDouble(a)
    ELSE BigShl(BigShl(a, s \div 2), s - s \div 2)

Pow2(s) == BigShl(<<1>>, s)

\* The number of bits of a: the least b with a < 2^b.
RECURSIVE BitLenFrom(_, _, _)
BitLenFrom(a, b, p) ==
    IF BigLess(a, p) THEN b ELSE BitLenFrom(a, b + 1, BigDouble(p))

\* A number of d digits is at least 10^(d-1), which is above 2^(3.3(d-1)).
BitLenStart(a) == IF Len(a) = 0 THEN 0 ELSE (33 * (Len(a) - 1)) \div 10

BitLen(a) == BitLenFrom(a, BitLenStart(a), Pow2(BitLenStart(a)))

IsOdd(a) == Len(a) > 0 /\ a[Len(a)] % 2 = 1

----------------------------------------------------------------------------
(* float64, without a sign: zero, a positive value m * 2^e, +Inf or NaN, as
   [kind, m, e].  Every operation computes the exact result and rounds it
   as IEEE 754 does, ties to even: to 53 bits, to the multiples of 2^-1074
   where those are coarser (the subnormal numbers), and to +Inf from 2^1024
   on.  m is below 2^53, or equal to it after a round up. *)

\* Bits of a float64's significand.
MantBits == 53
\* The finite float64 values are below 2^MaxExp.
MaxExp == 1024
\* The positive float64 values are multiples of 2^-MinQuantum.
MinQuantum == 1074

FloatZero == [kind |-> "finite", m |-> <<>>, e |-> 0]
FloatInf == [kind |-> "inf", m |-> <<>>, e |-> 0]
FloatNaN == [kind |-> "nan", m |-> <<>>, e |-> 0]

IsZero(a) == a.kind = "finite" /\ a.m = <<>>

\* dm is n divided by 2^k, half is 2^(k-1): the quotient, rounded.
RoundTie(dm, half) ==
    IF BigLess(half, dm.r) \/ (dm.r = half /\ IsOdd(dm.q))
    THEN BigAdd(dm.q, <<1>>)
    ELSE dm.q

\* m * 2^e after rounding: zero, +Inf from 2^1024 on, or the value.
Ranged(m, e) ==
    IF m = <<>> THEN FloatZero
    ELSE IF BitLen(m) + e > MaxExp THEN FloatInf
    ELSE [kind |-> "finite", m |-> m, e |-> e]

\* n * 2^e with the k lowest bits of n rounded away; with more bits to round
\* away than n has and one to spare, n * 2^e is below half the unit kept.
RoundBits(n, e, k) ==
    IF k <= 0 THEN Ranged(n, e)
    ELSE IF k > BitLen(n) THEN FloatZero
    ELSE Ranged(RoundTie(BigDivMod(n, Pow2(k)), Pow2(k - 1)), e + k)

\* The bits of n * 2^e that a float64 cannot hold: those beyond the 53
\* highest, and those below 2^-1074.
DropBits(n, e) ==
    IF BitLen(n) - MantBits > 0 - MinQuantum - e THEN BitLen(n) - MantBits
    ELSE 0 - MinQuantum - e

\* The float64 nearest to n * 2^e.
Round53(n, e) ==
    IF n = <<>> THEN FloatZero ELSE RoundBits(n, e, DropBits(n, e))

\* float64(x) of an unsigned integer
FloatOf(x) == Round53(x, 0)

FloatOne == [kind |-> "finite", m |-> <<1>>, e |-> 0]
FloatTen == [kind |-> "finite", m |-> <<1, 0>>, e |-> 0]

\* a * b
FloatTimes(a, b) ==
    IF a.kind = "nan" \/ b.kind = "nan" THEN FloatNaN
    ELSE IF a.kind = "inf" \/ b.kind = "inf"
    THEN (IF IsZero(a) \/ IsZero(b) THEN FloatNaN ELSE FloatInf)
    ELSE IF a.m = <<>> \/ b.m = <<>> THEN FloatZero
    ELSE Round53(BigTimes(a.m, b.m), a.e + b.e)

\* Bits by which the dividend is scaled up, so that the integer quotient has
\* more than 54 bits.
DivBits == 108

\* Twice the integer quotient, with the lowest bit telling whether there is
\* a remainder: enough to round the true quotient.
QuoSticky(dm) ==
    BigAdd(BigMul(dm.q, 2), IF dm.r = <<>> THEN <<>> ELSE <<1>>)

\* a / b
FloatQuo(a, b) ==
    IF a.kind = "nan" \/ b.kind = "nan" THEN FloatNaN
    ELSE IF a.kind = "inf" THEN (IF b.kind = "inf" THEN FloatNaN ELSE FloatInf)
    ELSE IF b.kind = "inf" THEN FloatZero
    ELSE IF b.m = <<>> THEN (IF a.m = <<>> THEN FloatNaN ELSE FloatInf)
    ELSE IF a.m = <<>> THEN FloatZero
    ELSE Round53(QuoSticky(BigDivMod(BigShl(a.m, DivBits), b.m)),
                 a.e - b.e - DivBits - 1)

\* uint64(a): the value truncated to an integer.  The language leaves the
\* conversion of +Inf, NaN and values from 1 << 64 on to the implementation;
\* the amd64 compiler's code gives 1 << 63 for them.  time.ParseDuration
\* converts a product that is below the unit.
FloatTrunc(a) ==
    IF a.kind # "finite" THEN Two63
    ELSE IF a.m = <<>> THEN <<>>
    ELSE IF BitLen(a.m) + a.e > 64 THEN Two63
    ELSE IF a.e >= 0 THEN BigShl(a.m, a.e)
    ELSE IF 0 - a.e > MantBits THEN <<>>
    ELSE BigDivMod(a.m, Pow2(0 - a.e)).q

----------------------------------------------------------------------------
(* Durations *)

\* A time.Duration: a signed count of nanoseconds.
Duration(neg, ns) == [neg |-> neg /\ ns # <<>>, ns |-> ns]

ZeroDuration == Duration(FALSE, <<>>)

\* n * time.Second
SecondsDuration(n) == Duration(FALSE, BigShift(BigOfNat(n), 9))

\* unitMap of package time: the nanoseconds of a unit as mant * 10^zeros;
\* mant = 0 for a string that is not a unit.  The micro sign and the Greek
\* letter mu both spell the microsecond.
UnitOf(u) ==
    IF u = <<"n","s">> THEN [mant |-> 1, zeros |-> 0]
    ELSE IF u \in {<<"u","s">>, <<"µ","s">>, <<"μ","s">>}
    THEN [mant |-> 1, zeros |-> 3]
    ELSE IF u = <<"m","s">> THEN [mant |-> 1, zeros |-> 6]
    ELSE IF u = <<"s">> THEN [mant |-> 1, zeros |-> 9]
    ELSE IF u = <<"m">> THEN [mant |-> 6, zeros |-> 10]
    ELSE IF u = <<"h">> THEN [mant |-> 36, zeros |-> 11]
    ELSE [mant |-> 0, zeros |-> 0]

\* a * unit
TimesUnit(a, unit) == BigShift(BigMul(a, unit.mant), unit.zeros)

\* Length of the longest prefix of s made of digits.
DigitPrefix(s) ==
    CHOOSE n \in 0..Len(s) :
        /\ \A i \in 1..n : IsDigit(s[i])
        /\ n = Len(s) \/ ~IsDigit(s[n + 1])

\* Length of the longest prefix of s without a digit or a period: the unit.
UnitPrefix(s) ==
    CHOOSE n \in 0..Len(s) :
        /\ \A i \in 1..n : ~(IsDigit(s[i]) \/ s[i] = ".")
        /\ n = Len(s) \/ IsDigit(s[n + 1]) \/ s[n + 1] = "."

\* leadingInt: the digits before the period; an error above 1 << 63.
IntResult(x, n) == [err |-> BigLess(Two63, x), x |-> x, n |-> n]

leadingInt(s) == IntResult(BigOfDigits(SubSeq(s, 1, DigitPrefix(s))), DigitPrefix(s))

\* leadingFraction: the digits after the period, read as x / scale, with
\* scale a float64 multiplied by 10 at every digit taken.  Every digit is
\* consumed, but a digit is taken into x only while x is at most
\* (1<<63 - 1) / 10 and x with the digit at most 1 << 63; once a digit is
\* left out, so are all after it.
FractionFits(s, i) ==
    /\ ~BigLess(MaxInt64Tenth, BigOfDigits(SubSeq(s, 1, i - 1)))
    /\ ~BigLess(Two63, BigOfDigits(SubSeq(s, 1, i)))

\* How many of the n digits are taken: the digits that fit are the first.
FractionTaken(s, n) == Cardinality({i \in 1..n : FractionFits(s, i)})

\* scale *= 10, k times over: the first half of the multiplications, then
\* the rest.  Zero, +Inf and NaN stay what they are.
RECURSIVE TimesTen(_, _)
TimesTen(scale, k) ==
    IF k = 0 \/ scale.m = <<>> THEN scale
    ELSE IF k = 1 THEN FloatTimes(scale, FloatTen)
    ELSE TimesTen(TimesTen(scale, k \div 2), k - k \div 2)

FractionResult(s, n, k) ==
    [x |-> BigOfDigits(SubSeq(s, 1, k)), scale |-> TimesTen(FloatOne, k), n |-> n]

leadingFraction(s) ==
    FractionResult(s, DigitPrefix(s), FractionTaken(s, DigitPrefix(s)))

NoFraction == [x |-> <<>>, scale |-> FloatOne, n |-> 0]

\* uint64(float64(f) * (float64(unit) / scale))
FractionShare(f, unit, scale) ==
    FloatTrunc(FloatTimes(FloatOf(f), FloatQuo(FloatOf(TimesUnit(<<1>>, unit)), scale)))

ParseFail == [ok |-> FALSE, d |-> <<>>]

\* The loop of time.ParseDuration over the components
\* [0-9]*(\.[0-9]*)?[a-z]+ of s, with d the nanoseconds summed so far, one
\* operator per stage of the loop body.
RECURSIVE ParseComponents(_, _)

\* d += v; the check of d against 1 << 63; the next component.
ComponentSum(rest, sum) ==
    IF BigLess(Two63, sum) THEN ParseFail ELSE ParseComponents(rest, sum)

\* The check of v, the component with its fraction, against 1 << 63.
ComponentValue(rest, d, v) ==
    IF BigLess(Two63, v) THEN ParseFail ELSE ComponentSum(rest, Uint64Add(d, v))

\* The check of v * unit against 1 << 63, and the fraction's share.
ComponentScaled(rest, d, frac, unit, whole) ==
    IF BigLess(Two63, whole) THEN ParseFail
    ELSE ComponentValue(rest, d,
             IF frac.x = <<>> THEN whole
             ELSE BigAdd(whole, FractionShare(frac.x, unit, frac.scale)))

\* The unit: missing, unknown, or applied to the digits before the period.
ComponentUnit(rest, d, int, frac, ulen, unit) ==
    IF ulen = 0 \/ unit.mant = 0 THEN ParseFail
    ELSE ComponentScaled(rest, d, frac, unit, TimesUnit(int.x, unit))

\* s2 follows the number: there must be digits before or after the period.
ComponentNumber(s2, d, int, frac) ==
    IF int.n = 0 /\ frac.n = 0 THEN ParseFail
    ELSE ComponentUnit(SubSeq(s2, UnitPrefix(s2) + 1, Len(s2)), d, int, frac,
                       UnitPrefix(s2), UnitOf(SubSeq(s2, 1, UnitPrefix(s2))))

\* s1 follows the digits before the period.
ComponentInt(s1, d, int) ==
    IF int.err THEN ParseFail
    ELSE IF Len(s1) > 0 /\ s1[1] = "."
    THEN ComponentNumber(SubSeq(s1, DigitPrefix(Tail(s1)) + 2, Len(s1)), d, int,
                         leadingFraction(Tail(s1)))
    ELSE ComponentNumber(s1, d, int, NoFraction)

ParseComponents(s, d) ==
    IF Len(s) = 0 THEN [ok |-> TRUE, d |-> d]
    ELSE IF ~(s[1] = "." \/ IsDigit(s[1])) THEN ParseFail
    ELSE ComponentInt(SubSeq(s, DigitPrefix(s) + 1, Len(s)), d, leadingInt(s))

\* The sign and the range of the sum: a negative duration may be 1 << 63
\* nanoseconds, a positive one must be below it.
SignedResult(neg, r) ==
    IF ~r.ok THEN [ok |-> FALSE, val |-> ZeroDuration]
    ELSE IF neg THEN [ok |-> TRUE, val |-> Duration(TRUE, r.d)]
    ELSE IF ~BigLess(r.d, Two63) THEN [ok |-> FALSE, val |-> ZeroDuration]
    ELSE [ok |-> TRUE, val |-> Duration(FALSE, r.d)]

ParseBody(neg, body) ==
    IF body = <<"0">> THEN [ok |-> TRUE, val |-> ZeroDuration]
    ELSE IF body = <<>> THEN [ok |-> FALSE, val |-> ZeroDuration]
    ELSE SignedResult(neg, ParseComponents(body, <<>>))

\* time.ParseDuration(s): [-+]?([0-9]*(\.[0-9]*)?[a-z]+)+, or "0" after the
\* sign; ok is err == nil.
ParseDuration(s) ==
    IF Len(s) > 0 /\ s[1] \in {"+", "-"}
    THEN ParseBody(s[1] = "-", Tail(s))
    ELSE ParseBody(FALSE, s)

\* Values of the "timeout" query parameter a request can carry.  The empty
\* string is what Query().Get returns when the parameter is absent.
TimeoutParams ==
    { <<>>,                     \* absent or empty
      <<"5","9">>,              \* no unit: not a duration
      <<"1",".","5","m","5","0","0","m","s">>,  \* 90.5 s
      <<"2","0","m">> }         \* 1200 s, longer than the retention age

\* The -timeout flag on the command line: not given, a long value, and a
\* value flag.Parse rejects.
NoTimeoutFlag == <<"unset">>
LongTimeoutFlag == <<"2","0","m">>
BadTimeoutFlag == <<"5","9">>

----------------------------------------------------------------------------
(* Configuration *)

\* src/main.go: no flags; both probes always run.
ConstConfig ==
    [build |-> "const", flagsOk |-> TRUE,
     requestTimeout |-> SecondsDuration(defaultRequestTimeout),
     disableInstance |-> FALSE, disableObjectStore |-> FALSE]

\* src/unnamed/part_000: flag.DurationVar and flag.Parse().  The variable
\* keeps its default of 59 s when the flag is not given; a value that
\* time.ParseDuration rejects makes flag.Parse fail.
FlagsParsed(parsed, dInstance, dObjectStore) ==
    [build |-> "flags", flagsOk |-> parsed.ok,
     requestTimeout |-> IF parsed.ok THEN parsed.val
                        ELSE SecondsDuration(defaultRequestTimeout),
     disableInstance |-> dInstance, disableObjectStore |-> dObjectStore]

FlagConfig(timeoutFlag, dInstance, dObjectStore) ==
    FlagsParsed(IF timeoutFlag # NoTimeoutFlag THEN ParseDuration(timeoutFlag)
                ELSE [ok |-> TRUE, val |-> SecondsDuration(defaultRequestTimeout)],
                dInstance, dObjectStore)

\* The configurations explored: main.go; part_000 without a -timeout flag
\* and every combination of disabled probes; part_000 with a long timeout
\* and the compute probe disabled; part_000 with a bad -timeout flag.
Configs ==
    {ConstConfig, FlagConfig(LongTimeoutFlag, TRUE, FALSE),
     FlagConfig(BadTimeoutFlag, FALSE, FALSE)} \cup
    { FlagConfig(NoTimeoutFlag, di, do) : di \in BOOLEAN, do \in BOOLEAN }

\* time.ParseDuration on the explored parameters, computed once.
ParsedParams == [param \in TimeoutParams |-> ParseDuration(param)]

\* time.ParseDuration(timeoutParam)
ParseParam(param) ==
    IF param \in TimeoutParams THEN ParsedParams[param] ELSE ParseDuration(param)

\* A slip that turns an unparseable parameter into a zero timeout.
requestTimeoutOf_ZeroOnError(c, param) ==
    IF c.build = "const"
    THEN IF ParseParam(param).ok THEN ParseParam(param).val ELSE ZeroDuration
    ELSE c.requestTimeout

\* The timeout the handler puts on the request's context.
requestTimeoutOf(c, param) ==
    IF c.build = "const"
    THEN IF param # <<>> /\ ParseParam(param).ok
         THEN ParseParam(param).val
         ELSE SecondsDuration(defaultRequestTimeout)
    ELSE c.requestTimeout

----------------------------------------------------------------------------
(* State *)

Slots == 1..MaxSlots

\* The compute probe (spawnMain) and the storage probe (objectStoreMain).
Probes == {"instance", "objectstore"}

\* Phases with the exercise before the wait for readiness.
Phases_Swapped == <<"create", "exercise", "ready", "delete">>

\* The phases of a probe, in order; each ends with step(ctx, timing, name).
Phases == <<"create", "ready", "exercise", "delete">>

NoName == <<>>
NoGauges == [steps |-> <<>>, at |-> 0]
NoResponse == [emitted |-> FALSE, body |-> [p \in Probes |-> NoGauges]]

\* A resource the exporter's probe p created at second t.
Resource(p, name, t) == [kind |-> p, name |-> name, createdAt |-> t]

\* Resources of other tenants: never tagged, whatever their age.
ForeignResources ==
    { [kind |-> "instance",
       name |-> <<"w","e","b","-","0","1","2","3","4","5","6","7","-","0">>,
       createdAt |-> 0] }

\* The second at which the resource of a previous lifetime was created: one
\* sleep of the collector before this process started.
LeftoverTime == StartTime - garbageCollectorSleep

\* Resources a previous lifetime of the exporter left behind.
LeftoverResources ==
    { Resource("instance", createName(LeftoverTime, 1), LeftoverTime) }

\* The seconds of the clock that advances by one sleep of the collector.
SweepTimes == { StartTime + k * garbageCollectorSleep : k \in 0..MaxSleeps }

\* The second at which the first sleep of the collector is over.
FirstSweepTime == StartTime + garbageCollectorSleep

\* Seconds before the start at which earlier lifetimes of the exporter
\* created resources: at the first sweep they are one second older than the
\* retention age, exactly as old, and one second younger.
OldTimes ==
    { FirstSweepTime - garbageCollectorResourceAge + d : d \in {-1, 0, 1} }

OldResource(t) == Resource("instance", createName(t, 1), t)

\* What these lifetimes left behind.
OldResources == { OldResource(t) : t \in OldTimes }

\* parentDone: the context of the incoming request (r.Context()) is done.
IdleRequest ==
    [pc |-> "idle", param |-> <<>>, timeout |-> ZeroDuration, startedAt |-> 0,
     deadline |-> 0, cancelled |-> FALSE, wg |-> 0, parentDone |-> FALSE]

IdleProbe == [st |-> "off", phase |-> 0, res |-> NoName, outcome |-> "none"]

\* since: the second the collector was started; sweeps: the sweeps it has
\* finished since then; failed: the deletes that failed in its last sweep.
IdleGC == [pc |-> "off", wakeAt |-> 0, failed |-> {}, since |-> 0, sweeps |-> 0]

Init ==
    /\ mainpc = "start"
    /\ cfg = ConstConfig
    /\ now = StartTime
    /\ inventory = ForeignResources \cup LeftoverResources
    /\ gc = IdleGC
    /\ req = [r \in Slots |-> IdleRequest]
    /\ probe = [r \in Slots |-> [p \in Probes |-> IdleProbe]]
    /\ timing = [r \in Slots |-> [p \in Probes |-> NoGauges]]
    /\ response = [r \in Slots |-> NoResponse]
    /\ scrapes = 0

----------------------------------------------------------------------------
(* The shared context of a request *)

\* The clock counts whole seconds.  The seconds after which a timer of
\* duration d has fired on that clock: none for a duration that is not
\* positive, else the duration rounded up to the second; the clock's range
\* for a duration beyond it.
MaxClock == 100 * MaxTime

ExpirySeconds(d) ==
    IF d.neg \/ d.ns = <<>> THEN 0
    ELSE LET whole == BigDropLast(d.ns, 9)
             up    == IF BigHasLow(d.ns, 9) THEN 1 ELSE 0
         IN  IF Len(whole) > 9 \/ BigToNat(whole) + up > MaxClock THEN MaxClock
             ELSE BigToNat(whole) + up

\* context.WithTimeout(context.Background(), requestTimeout) at second t.
WithTimeout(t, timeout) ==
    [deadline |-> t + ExpirySeconds(timeout), cancelled |-> FALSE]

\* One context shared by all requests: done as soon as any request's is.
CtxDone_AnyRequest(r) ==
    \E s \in 1..MaxSlots : req[s].cancelled \/ (req[s].pc # "idle" /\ now >= req[s].deadline)

\* <-ctx.Done() is ready: the deadline has passed or cancel() was called.
CtxDone(r) == req[r].cancelled \/ now >= req[r].deadline

----------------------------------------------------------------------------
(* main *)

\* A main() that serves without starting the collector.
Main_NoCollector(c) ==
    /\ mainpc = "start"
    /\ mainpc' = IF c.flagsOk THEN "serving" ELSE "exited"
    /\ cfg' = c
    /\ UNCHANGED <<now, inventory, gc, req, probe, timing, response, scrapes>>

\* main(): parse the flags (part_000), start the collector goroutine, serve.
\* When flag.Parse fails the process exits with status 2 before either.
Main(c) ==
    /\ mainpc = "start"
    /\ mainpc' = IF c.flagsOk THEN "serving" ELSE "exited"
    /\ cfg' = c
    /\ gc' = IF c.flagsOk
             THEN [gc EXCEPT !.pc = "sleeping",
                             !.wakeAt = now + garbageCollectorSleep,
                             !.since = now]
             ELSE gc
    /\ UNCHANGED <<now, inventory, req, probe, timing, response, scrapes>>

----------------------------------------------------------------------------
(* metricsHandler *)

\* The "timeout" parameters requests carry: any of them to main.go, which
\* reads the parameter; none or a valid one to part_000, which does not.
RequestParams(c) ==
    IF c.build = "const" THEN TimeoutParams
    ELSE { param \in TimeoutParams : param = <<>> \/ ParsedParams[param].ok }

\* The probes the handler starts: main.go starts both, part_000 those that
\* are not disabled.
Enabled(c) ==
    { p \in Probes :
        \/ p = "instance" /\ ~c.disableInstance
        \/ p = "objectstore" /\ ~c.disableObjectStore }

\* A handler that never waits for its goroutines.
ReachesWait_Never(c) == FALSE

\* Whether the handler reaches wg.Wait(): always in main.go; in part_000 the
\* call sits inside the "if disableObjectStore != true" block.
ReachesWait(c) ==
    IF c.build = "const" THEN TRUE ELSE ~c.disableObjectStore

\* The handler up to wg.Wait(): the timeout, a fresh registry, the shared
\* context, and one goroutine per enabled probe.
HandlerStart(r, param) ==
    /\ mainpc = "serving"
    /\ scrapes < MaxScrapes
    /\ req[r].pc \in {"idle", "done"}
    /\ \A p \in Probes : probe[r][p].st \in {"off", "returned"}
    /\ LET timeout == requestTimeoutOf(cfg, param)
           ctx     == WithTimeout(now, timeout)
       IN  req' = [req EXCEPT ![r] =
                     [pc |-> "wait", param |-> param, timeout |-> timeout,
                      startedAt |-> now, deadline |-> ctx.deadline,
                      cancelled |-> ctx.cancelled,
                      wg |-> Cardinality(Enabled(cfg)),
                      parentDone |-> FALSE]]
    /\ probe' = [probe EXCEPT ![r] =
                   [p \in Probes |->
                      IF p \in Enabled(cfg)
                      THEN [st |-> "call", phase |-> 1, res |-> NoName,
                            outcome |-> "none"]
                      ELSE IdleProbe]]
    /\ timing' = [timing EXCEPT ![r] = [p \in Probes |-> NoGauges]]
    /\ response' = [response EXCEPT ![r] = NoResponse]
    /\ scrapes' = scrapes + 1
    /\ UNCHANGED <<mainpc, cfg, now, inventory, gc>>

\* wg.Wait() returns (or is never reached), and the registry is written to
\* the response.
HandlerServe(r) ==
    /\ req[r].pc = "wait"
    /\ ReachesWait(cfg) => req[r].wg = 0
    /\ req' = [req EXCEPT ![r].pc = "served"]
    /\ response' = [response EXCEPT ![r] = [emitted |-> TRUE, body |-> timing[r]]]
    /\ UNCHANGED <<mainpc, cfg, now, inventory, gc, probe, timing, scrapes>>

\* The handler returns: the deferred cancel() runs.
HandlerReturn(r) ==
    /\ req[r].pc = "served"
    /\ req' = [req EXCEPT ![r].pc = "done", ![r].cancelled = TRUE]
    /\ UNCHANGED <<mainpc, cfg, now, inventory, gc, probe, timing, response,
                   scrapes>>

\* The client of the request goes away while the handler waits: net/http
\* cancels the context of the incoming request.  The handler derives the
\* shared context from context.Background(), not from the request, so the
\* shared context keeps its own deadline and its own cancel.
ParentCancel(r) ==
    /\ req[r].pc = "wait"
    /\ ~req[r].parentDone
    /\ req' = [req EXCEPT ![r].parentDone = TRUE]
    /\ UNCHANGED <<mainpc, cfg, now, inventory, gc, probe, timing, response,
                   scrapes>>

\* A goroutine that returns without wg.Done().
WgDone_Lost(rq) == rq

\* The goroutine around a probe: once the probe has returned, wg.Done().
WgDone(rq) == [rq EXCEPT !.wg = @ - 1]

----------------------------------------------------------------------------
(* step *)

\* timing.With(Labels{"step": name}).SetToCurrentTime()
SetToCurrentTime(gauges, name, t) ==
    [steps |-> Append(gauges.steps, name), at |-> t]

\* A step() that never reports the deadline.
StepResult_Never(done) == "nil"

\* The select of step(): an error when ctx.Done() is ready, nil otherwise.
StepResult(done) == IF done THEN "timeout" ELSE "nil"

----------------------------------------------------------------------------
(* The probes *)

\* The resource a probe holds, as the provider stores it.
Held(r, p) == { x \in inventory : x.kind = p /\ x.name = probe[r][p].res }

\* The wall-clock seconds the model can reach.
Times == { StartTime + k * TickSeconds : k \in 0..(MaxTicks + MaxLateTicks) }

\* createName, computed once for every second and random draw.
Created ==
    [t \in Times \cup SweepTimes |-> [seed \in Seeds |-> createName(t, seed)]]

\* A probe that forgets its delete phase.
DeleteOwn_Skip(inv, held) == inv

\* The delete phase: the probe deletes what it created.
DeleteOwn(inv, held) == inv \ held

\* A provider call of the current phase returns without error, and the probe
\* enters step(): the gauge of the phase is set.  The create phase names its
\* resource with createName(), whose suffix is a random draw made without
\* looking at what exists: any draw can come up, one in use included, and
\* the provider keeps one resource per kind and name.
ProbeCall(r, p) ==
    /\ probe[r][p].st = "call"
    /\ LET ph == probe[r][p].phase
       IN  /\ \/ /\ ph = 1
                 /\ \E seed \in Seeds :
                      LET name == Created[now][seed]
                      IN  /\ inventory' = inventory \cup {Resource(p, name, now)}
                          /\ probe' = [probe EXCEPT ![r][p].st = "select",
                                                    ![r][p].res = name]
              \/ /\ ph \in {2, 3}
                 /\ Held(r, p) # {}
                 /\ inventory' = inventory
                 /\ probe' = [probe EXCEPT ![r][p].st = "select"]
              \/ /\ ph = 4
                 /\ Held(r, p) # {}
                 /\ inventory' = DeleteOwn(inventory, Held(r, p))
                 /\ probe' = [probe EXCEPT ![r][p].st = "select"]
           /\ timing' = [timing EXCEPT ![r][p] =
                           SetToCurrentTime(@, Phases[ph], now)]
    /\ UNCHANGED <<mainpc, cfg, now, gc, req, response, scrapes>>

\* A provider call of the current phase returns an error (a ProviderError,
\* or the resource is gone): the probe returns, leaving what it created.
ProbeFail(r, p) ==
    /\ probe[r][p].st = "call"
    /\ probe' = [probe EXCEPT ![r][p].st = "returned",
                              ![r][p].outcome = "provider_error"]
    /\ req' = [req EXCEPT ![r] = WgDone(@)]
    /\ UNCHANGED <<mainpc, cfg, now, inventory, gc, timing, response, scrapes>>

\* A probe that deletes what it created when step() reports the deadline.
StepSelect_CleanupOnTimeout(r, p) ==
    /\ probe[r][p].st = "select"
    /\ LET err  == StepResult(CtxDone(r))
           last == probe[r][p].phase = Len(Phases)
       IN  /\ probe' = [probe EXCEPT ![r][p] =
                          IF err = "timeout"
                          THEN [@ EXCEPT !.st = "returned", !.outcome = "timeout"]
                          ELSE IF last
                          THEN [@ EXCEPT !.st = "returned", !.outcome = "success"]
                          ELSE [@ EXCEPT !.st = "call", !.phase = @ + 1]]
           /\ req' = IF err = "timeout" \/ last
                     THEN [req EXCEPT ![r] = WgDone(@)]
                     ELSE req
           /\ inventory' = IF err = "timeout"
                           THEN DeleteOwn(inventory, Held(r, p))
                           ELSE inventory
    /\ UNCHANGED <<mainpc, cfg, now, gc, timing, response, scrapes>>

\* The select of step(): on an error the probe returns at once, skipping its
\* remaining phases; otherwise it goes on to the next phase, or has finished
\* and returns.
StepSelect(r, p) ==
    /\ probe[r][p].st = "select"
    /\ LET err  == StepResult(CtxDone(r))
           last == probe[r][p].phase = Len(Phases)
       IN  /\ probe' = [probe EXCEPT ![r][p] =
                          IF err = "timeout"
                          THEN [@ EXCEPT !.st = "returned", !.outcome = "timeout"]
                          ELSE IF last
                          THEN [@ EXCEPT !.st = "returned", !.outcome = "success"]
                          ELSE [@ EXCEPT !.st = "call", !.phase = @ + 1]]
           /\ req' = IF err = "timeout" \/ last
                     THEN [req EXCEPT ![r] = WgDone(@)]
                     ELSE req
    /\ UNCHANGED <<mainpc, cfg, now, inventory, gc, timing, response, scrapes>>

----------------------------------------------------------------------------
(* The garbage collector *)

\* The names that can occur at the provider.
Names ==
    { x.name : x \in ForeignResources \cup LeftoverResources \cup OldResources } \cup
    { Created[t][seed] : t \in Times \cup SweepTimes, seed \in Seeds }

\* ParseName, computed once for every name that can occur.
Parsed == [name \in Names |-> ParseName(name)]

\* The name carries the fixed tag.
HasTag(name) == Parsed[name].ok /\ Parsed[name].tag = resourceTag

\* An age counted from the second the collector was started.
NameAge_FirstSeen(name, t) == t - gc.since

\* Age of a name at second t: now minus the timestamp embedded in the name.
NameAge(name, t) == t - Parsed[name].ts

\* A listed resource is a candidate: tagged, and older than the retention age.
IsCandidate(x, t) ==
    HasTag(x.name) /\ NameAge(x.name, t) > garbageCollectorResourceAge

\* The candidates of a sweep over an inventory at second t.
Candidates(inv, t) == { x \in inv : IsCandidate(x, t) }

\* The deletes that fail in one sweep: at most MaxFailures of them.
Failures(cands) == { f \in SUBSET cands : Cardinality(f) <= MaxFailures }

\* A sweep that stops at the first delete that fails.
GCSweep_AbortOnFailure(failed) ==
    /\ gc.pc = "sleeping"
    /\ now >= gc.wakeAt
    /\ failed \in Failures(Candidates(inventory, now))
    /\ inventory' = IF failed = {}
                    THEN inventory \ Candidates(inventory, now)
                    ELSE inventory
    /\ gc' = [gc EXCEPT !.wakeAt = now + garbageCollectorSleep,
                        !.failed = failed,
                        !.sweeps = @ + 1]
    /\ UNCHANGED <<mainpc, cfg, now, req, probe, timing, response, scrapes>>

\* The sleep is over: one sweep, then sleep again.  The sweep lists the
\* resources of every kind and calls delete on every candidate; the deletes
\* in `failed` fail (the provider refuses, or the resource is already gone)
\* and the sweep goes on with the next candidate.
GCSweep(failed) ==
    /\ gc.pc = "sleeping"
    /\ now >= gc.wakeAt
    /\ failed \in Failures(Candidates(inventory, now))
    /\ inventory' = inventory \ (Candidates(inventory, now) \ failed)
    /\ gc' = [gc EXCEPT !.wakeAt = now + garbageCollectorSleep,
                        !.failed = failed,
                        !.sweeps = @ + 1]
    /\ UNCHANGED <<mainpc, cfg, now, req, probe, timing, response, scrapes>>

\* The collector is stopped and started again at a later second: it keeps
\* nothing from before, and sleeps before its first sweep.
GCRestart ==
    /\ gc.pc = "sleeping"
    /\ gc.since < now
    /\ gc' = [IdleGC EXCEPT !.pc = "sleeping",
                            !.wakeAt = now + garbageCollectorSleep,
                            !.since = now]
    /\ UNCHANGED <<mainpc, cfg, now, inventory, req, probe, timing, response,
                   scrapes>>

----------------------------------------------------------------------------
(* Time *)

Tick ==
    /\ now + TickSeconds <= MaxTime
    /\ now' = now + TickSeconds
    /\ UNCHANGED <<mainpc, cfg, inventory, gc, req, probe, timing, response,
                   scrapes>>

\* The clock advancing by one sleep of the collector.
SleepTick ==
    /\ now + garbageCollectorSleep <= StartTime + MaxSleeps * garbageCollectorSleep
    /\ now' = now + garbageCollectorSleep
    /\ UNCHANGED <<mainpc, cfg, inventory, gc, req, probe, timing, response,
                   scrapes>>

\* The clock over the longer horizon.
LateTick ==
    /\ now + TickSeconds <= Horizon
    /\ now' = now + TickSeconds
    /\ UNCHANGED <<mainpc, cfg, inventory, gc, req, probe, timing, response,
                   scrapes>>

----------------------------------------------------------------------------
(* Specification: requests served one at a time *)

Next ==
    \/ \E c \in Configs : Main(c)
    \/ \E param \in RequestParams(cfg) : HandlerStart(1, param)
    \/ HandlerServe(1)
    \/ HandlerReturn(1)
    \/ \E p \in Probes : ProbeCall(1, p)
    \/ \E p \in Probes : ProbeFail(1, p)
    \/ \E p \in Probes : StepSelect(1, p)
    \/ \E failed \in Failures(Candidates(inventory, now)) : GCSweep(failed)
    \/ Tick

Spec == Init /\ [][Next]_vars

----------------------------------------------------------------------------
(* Specification: the collector's provider deletes succeed, time passes, and
   every goroutine that can take a step eventually takes it *)

LiveNext ==
    \/ \E c \in Configs : Main(c)
    \/ \E param \in RequestParams(cfg) : HandlerStart(1, param)
    \/ HandlerServe(1)
    \/ HandlerReturn(1)
    \/ \E p \in Probes : ProbeCall(1, p)
    \/ \E p \in Probes : ProbeFail(1, p)
    \/ \E p \in Probes : StepSelect(1, p)
    \/ GCSweep({})
    \/ Tick

LiveSpec ==
    /\ Init
    /\ [][LiveNext]_vars
    /\ WF_vars(\E c \in Configs : Main(c))
    /\ WF_vars(Tick)
    /\ WF_vars(GCSweep({}))
    /\ WF_vars(HandlerServe(1))
    /\ WF_vars(HandlerReturn(1))
    /\ \A p \in Probes : WF_vars(ProbeCall(1, p) \/ ProbeFail(1, p))
    /\ \A p \in Probes : WF_vars(StepSelect(1, p))

----------------------------------------------------------------------------
(* Specification: clients may go away while their request is being served *)

CancelNext ==
    \/ \E c \in Configs : Main(c)
    \/ \E param \in RequestParams(cfg) : HandlerStart(1, param)
    \/ HandlerServe(1)
    \/ HandlerReturn(1)
    \/ ParentCancel(1)
    \/ \E p \in Probes : ProbeCall(1, p)
    \/ \E p \in Probes : ProbeFail(1, p)
    \/ \E p \in Probes : StepSelect(1, p)
    \/ \E failed \in Failures(Candidates(inventory, now)) : GCSweep(failed)
    \/ Tick

CancelSpec == Init /\ [][CancelNext]_vars

----------------------------------------------------------------------------
(* Specification: the collector followed over several sleeps, with restarts
   of the collector *)

CollectorNext ==
    \/ \E c \in Configs : Main(c)
    \/ \E param \in RequestParams(cfg) : HandlerStart(1, param)
    \/ HandlerServe(1)
    \/ HandlerReturn(1)
    \/ \E p \in Probes : ProbeCall(1, p)
    \/ \E p \in Probes : ProbeFail(1, p)
    \/ \E p \in Probes : StepSelect(1, p)
    \/ \E failed \in Failures(Candidates(inventory, now)) : GCSweep(failed)
    \/ GCRestart
    \/ LateTick

CollectorSpec == Init /\ [][CollectorNext]_vars

----------------------------------------------------------------------------
(* Specification: the collector followed sleep by sleep, with restarts of
   the collector, over an inventory that holds tagged resources of earlier
   lifetimes around the retention age *)

SweepInit ==
    /\ mainpc = "start"
    /\ cfg = ConstConfig
    /\ now = StartTime
    /\ inventory = ForeignResources \cup LeftoverResources \cup OldResources
    /\ gc = IdleGC
    /\ req = [r \in Slots |-> IdleRequest]
    /\ probe = [r \in Slots |-> [p \in Probes |-> IdleProbe]]
    /\ timing = [r \in Slots |-> [p \in Probes |-> NoGauges]]
    /\ response = [r \in Slots |-> NoResponse]
    /\ scrapes = 0

\* The configurations followed: part_000 without a -timeout flag, with both
\* probes and with the object store probe alone.
SweepConfigs ==
    {FlagConfig(NoTimeoutFlag, FALSE, FALSE), FlagConfig(NoTimeoutFlag, TRUE, FALSE)}

SweepNext ==
    \/ \E c \in SweepConfigs : Main(c)
    \/ \E param \in RequestParams(cfg) : HandlerStart(1, param)
    \/ HandlerServe(1)
    \/ HandlerReturn(1)
    \/ \E p \in Probes : ProbeCall(1, p)
    \/ \E p \in Probes : ProbeFail(1, p)
    \/ \E p \in Probes : StepSelect(1, p)
    \/ \E failed \in Failures(Candidates(inventory, now)) : GCSweep(failed)
    \/ GCRestart
    \/ SleepTick

SweepSpec == SweepInit /\ [][SweepNext]_vars

----------------------------------------------------------------------------
(* Specification: the collector followed over several sleeps; its provider
   deletes succeed, time passes, and every goroutine that can take a step
   eventually takes it *)

CollectorLiveNext ==
    \/ \E c \in Configs : Main(c)
    \/ \E param \in RequestParams(cfg) : HandlerStart(1, param)
    \/ HandlerServe(1)
    \/ HandlerReturn(1)
    \/ \E p \in Probes : ProbeCall(1, p)
    \/ \E p \in Probes : ProbeFail(1, p)
    \/ \E p \in Probes : StepSelect(1, p)
    \/ GCSweep({})
    \/ LateTick

CollectorLiveSpec ==
    /\ Init
    /\ [][CollectorLiveNext]_vars
    /\ WF_vars(\E c \in Configs : Main(c))
    /\ WF_vars(LateTick)
    /\ WF_vars(GCSweep({}))
    /\ WF_vars(HandlerServe(1))
    /\ WF_vars(HandlerReturn(1))
    /\ \A p \in Probes : WF_vars(ProbeCall(1, p) \/ ProbeFail(1, p))
    /\ \A p \in Probes : WF_vars(StepSelect(1, p))

----------------------------------------------------------------------------
(* Specification: requests served concurrently.  net/http runs the handler
   of every request in a goroutine of its own; the specification starts one
   clock step after the start of the process, with the server serving and a
   request without a timeout parameter in flight in every slot but the
   first: accepted in the second of the start, its probes still in their
   first provider call, its deadline passed.  It follows these requests and
   the request accepted next within that second.  The collector is left
   asleep. *)

\* The builds and flags followed: both probes, and the object store alone.
ConcConfigs == {ConstConfig, FlagConfig(NoTimeoutFlag, TRUE, FALSE)}

\* The request the handler of configuration c has accepted at second t,
\* waiting in wg.Wait().
InFlightRequest(c, t) ==
    [pc |-> "wait", param |-> <<>>,
     timeout |-> requestTimeoutOf(c, <<>>), startedAt |-> t,
     deadline |-> WithTimeout(t, requestTimeoutOf(c, <<>>)).deadline,
     cancelled |-> FALSE, wg |-> Cardinality(Enabled(c)), parentDone |-> FALSE]

\* Its goroutines, before their first provider call.
InFlightProbes(c) ==
    [p \in Probes |->
       IF p \in Enabled(c)
       THEN [st |-> "call", phase |-> 1, res |-> NoName, outcome |-> "none"]
       ELSE IdleProbe]

ConcInit ==
    /\ mainpc = "serving"
    /\ cfg \in ConcConfigs
    /\ now = StartTime + TickSeconds
    /\ inventory = ForeignResources \cup LeftoverResources
    /\ gc = [IdleGC EXCEPT !.pc = "sleeping",
                           !.wakeAt = StartTime + TickSeconds + garbageCollectorSleep,
                           !.since = StartTime]
    /\ req = [r \in Slots |->
                IF r = 1 THEN IdleRequest ELSE InFlightRequest(cfg, StartTime)]
    /\ probe = [r \in Slots |->
                  IF r = 1 THEN [p \in Probes |-> IdleProbe] ELSE InFlightProbes(cfg)]
    /\ timing = [r \in Slots |-> [p \in Probes |-> NoGauges]]
    /\ response = [r \in Slots |-> NoResponse]
    /\ scrapes = 0

ConcNext ==
    \/ \E r \in Slots : \E param \in RequestParams(cfg) : HandlerStart(r, param)
    \/ \E r \in Slots : HandlerServe(r)
    \/ \E r \in Slots : HandlerReturn(r)
    \/ \E r \in Slots : \E p \in Probes : ProbeCall(r, p)
    \/ \E r \in Slots : \E p \in Probes : ProbeFail(r, p)
    \/ \E r \in Slots : \E p \in Probes : StepSelect(r, p)

ConcSpec == ConcInit /\ [][ConcNext]_vars

----------------------------------------------------------------------------
(* Specification: the naming service alone.  createName is called at a range
   of wall-clock seconds with a range of random draws, and each name is kept
   with the second it was created at. *)

\* Number of random draws tried per second.
MaxDraws == 5

NameTimes == {0, 7, 10, 999, 1800, 1000000, 1700000000}

NameInit ==
    /\ mainpc = "serving"
    /\ cfg = ConstConfig
    /\ now \in NameTimes
    /\ inventory = {}
    /\ gc = IdleGC
    /\ req = [r \in Slots |-> IdleRequest]
    /\ probe = [r \in Slots |-> [p \in Probes |-> IdleProbe]]
    /\ timing = [r \in Slots |-> [p \in Probes |-> NoGauges]]
    /\ response = [r \in Slots |-> NoResponse]
    /\ scrapes = 0

NameCreate(seed) ==
    /\ inventory' = inventory \cup {Resource("instance", createName(now, seed), now)}
    /\ UNCHANGED <<mainpc, cfg, now, gc, req, probe, timing, response, scrapes>>

NameNext == \E seed \in 0..(MaxDraws - 1) : NameCreate(seed)

NameSpec == NameInit /\ [][NameNext]_vars

----------------------------------------------------------------------------
(* Vocabulary of the properties *)

\* The probe's goroutine is between its start and its return.
Running(r, p) == probe[r][p].st \in {"call", "select"}

Returned(r, p) == probe[r][p].st = "returned"

\* The handler has written the response of the request in slot r.
Responded(r) == req[r].pc \in {"served", "done"}

\* Both probes were started for the request in slot r.
BothStarted(r) == \A p \in Probes : probe[r][p].st # "off"

\* The probe has created a resource and has not yet deleted it itself.
Owns(r, p) ==
    /\ probe[r][p].res # NoName
    /\ ~(probe[r][p].phase = Len(Phases) /\ probe[r][p].st \in {"select", "returned"})

\* The probe returned on a deadline-exceeded step, leaving a resource behind.
Abandoned(r, p) ==
    Returned(r, p) /\ probe[r][p].outcome = "timeout" /\ Owns(r, p)

\* s starts with prefix.
HasPrefix(s, prefix) ==
    Len(s) >= Len(prefix) /\ SubSeq(s, 1, Len(prefix)) = prefix

\* The resource was named by this exporter: its name starts with the tag and
\* a separator.
Tagged(x) == HasPrefix(x.name, resourceTag \o <<"-">>)

\* The resource is older than the retention age at second t, by the second
\* the provider created it at.
Stale(x, t) == t - x.createdAt > garbageCollectorResourceAge

\* A step of the collector: it goes back to sleep with a new wake-up time.
SweepStep == gc.pc = "sleeping" /\ gc'.wakeAt # gc.wakeAt

\* The collector has finished one more sweep.
SweepDone == gc.pc = "sleeping" /\ gc'.sweeps = gc.sweeps + 1

----------------------------------------------------------------------------
(* C1 *)

\* C1: the response of a request is never emitted while a probe that the
\* request started is still running, whatever probes are enabled.
C1_ResponseAfterProbes ==
    \A r \in Slots : Responded(r) => \A p \in Probes : ~Running(r, p)

----------------------------------------------------------------------------
(* C2 *)

\* The steps a probe has published are the first phases, in order.
StepsInOrder(r, p) ==
    timing[r][p].steps = SubSeq(Phases, 1, Len(timing[r][p].steps))

\* C2: when both probes run under the shared context, whatever happens to
\* one of them, the context is not cancelled while the other runs, the other
\* can always take its next step, its steps are the phases in order, it ends
\* with a timeout only once the deadline has passed, and the response waits
\* for both and can be written once both have returned.
C2_ProbesIndependent ==
    \A r \in Slots :
        BothStarted(r) =>
            /\ req[r].cancelled => \A p \in Probes : Returned(r, p)
            /\ Responded(r) => \A p \in Probes : Returned(r, p)
            /\ (req[r].pc = "wait" /\ \A p \in Probes : Returned(r, p))
                   => ENABLED HandlerServe(r)
            /\ \A q \in Probes :
                   /\ Running(r, q) =>
                          ENABLED (ProbeCall(r, q) \/ ProbeFail(r, q) \/ StepSelect(r, q))
                   /\ StepsInOrder(r, q)
                   /\ probe[r][q].outcome = "timeout" => now >= req[r].deadline
                   /\ probe[r][q].outcome = "success" => timing[r][q].steps = Phases

\* One probe failed at creation, the other succeeded, and the request returned.
C2_Witness ==
    \E r \in Slots : \E p, q \in Probes :
        /\ p # q
        /\ req[r].pc = "done"
        /\ probe[r][p].outcome = "provider_error" /\ probe[r][p].phase = 1
        /\ probe[r][q].outcome = "success"

----------------------------------------------------------------------------
(* C3 *)

\* C3: a sweep never deletes the resource of a probe run that is still
\* running within its deadline: such a run still finds what it created.
C3_SweepSparesLiveRuns ==
    \A r \in Slots : \A p \in Probes :
        (Running(r, p) /\ Owns(r, p) /\ now < req[r].deadline)
            => Held(r, p) # {}

----------------------------------------------------------------------------
(* C4 *)

\* The resources the probes can create in the modelled horizon.
AllResources ==
    { Resource(p, Created[t][seed], t) : p \in Probes, t \in Times, seed \in Seeds }

\* x is at the provider, left behind by a probe run that was cancelled.
AbandonedResource(x) ==
    /\ x \in inventory
    /\ \E r \in Slots : \E p \in Probes :
           Abandoned(r, p) /\ x.kind = p /\ x.name = probe[r][p].res

\* C4: a resource left behind by a cancelled probe run is found by the
\* collector's tag filter, no sweep deletes it while it is no older than the
\* retention age, and, when it outlives that age within the horizon, a sweep
\* eventually deletes it.
C4_AbandonedCollected ==
    /\ [](\A x \in inventory : AbandonedResource(x) => HasTag(x.name))
    /\ [][SweepStep =>
             \A x \in inventory \ inventory' :
                 AbandonedResource(x) => Stale(x, now)]_vars
    /\ \A x \in AllResources :
           (AbandonedResource(x) /\ x.createdAt + garbageCollectorResourceAge < MaxTime)
               ~> (x \notin inventory)

\* A cancelled run's resource is gone although the run never deleted it.
C4_Witness ==
    \E r \in Slots : \E p \in Probes : Abandoned(r, p) /\ Held(r, p) = {}

----------------------------------------------------------------------------
(* C5 *)

\* C5: step() sets the gauge of its step to the current time whether or not
\* the context is done, and only then looks at the context: the select can
\* always be taken, and it reports a timeout exactly when the context is done
\* at that moment.
C5_StepPublishesThenChecks ==
    /\ [](\A r \in Slots : \A p \in Probes :
            probe[r][p].st = "select" =>
                /\ Len(timing[r][p].steps) = probe[r][p].phase
                /\ timing[r][p].steps[probe[r][p].phase] = Phases[probe[r][p].phase]
                /\ ENABLED StepSelect(r, p))
    /\ [][\A r \in Slots : \A p \in Probes :
            /\ (probe[r][p].st = "call" /\ probe'[r][p].st = "select") =>
                   timing'[r][p] =
                       [steps |-> Append(timing[r][p].steps, Phases[probe[r][p].phase]),
                        at    |-> now]
            /\ (probe[r][p].st = "select" /\ probe'[r][p].st # "select") =>
                   (probe'[r][p].outcome = "timeout" <=> CtxDone(r))]_vars

\* A step published after the deadline had passed, and reported as a timeout.
C5_Witness ==
    \E r \in Slots : \E p \in Probes :
        /\ probe[r][p].outcome = "timeout"
        /\ ~req[r].cancelled
        /\ timing[r][p].at >= req[r].deadline
        /\ Len(timing[r][p].steps) = probe[r][p].phase

----------------------------------------------------------------------------
(* C6 *)

\* C6: a probe run that completed all its phases without a timeout has
\* published every step and has left none of its resources at the provider.
C6_SelfCleanup ==
    \A r \in Slots : \A p \in Probes :
        probe[r][p].outcome = "success" =>
            /\ Returned(r, p)
            /\ probe[r][p].res # NoName
            /\ timing[r][p].steps = Phases
            /\ \A x \in inventory : ~(x.kind = p /\ x.name = probe[r][p].res)

\* A run succeeded while tagged resources of other origin are at the provider.
C6_Witness ==
    \E r \in Slots : \E p \in Probes :
        /\ probe[r][p].outcome = "success"
        /\ \E x \in inventory : Tagged(x)

----------------------------------------------------------------------------
(* C7 *)

\* The resources of an inventory that are tagged and older than the retention
\* age at second t.
StaleTagged(inv, t) == { x \in inv : Tagged(x) /\ Stale(x, t) }

\* C7 as stated: a sweep removes exactly the tagged resources older than the
\* retention age, all of them, and nothing else.
C7_SweepDeletesEveryStale ==
    [][SweepDone =>
          inventory' = inventory \ StaleTagged(inventory, now)]_vars

\* C7, amended: a sweep removes exactly the tagged resources older than the
\* retention age whose delete call succeeds; a resource whose delete call
\* failed was such a resource and stays; tagged resources at or below the
\* retention age and resources without the tag stay as they are.
C7_SweepDeletesExactly ==
    [][SweepDone =>
          /\ gc'.failed \subseteq StaleTagged(inventory, now)
          /\ inventory' = inventory \ (StaleTagged(inventory, now) \ gc'.failed)]_vars

\* After the first sweep, run when the first sleep was over and without a
\* failing delete: the tagged resource one second above the retention age is
\* gone; the tagged resource exactly at the retention age, the one a second
\* below it and the old resource without the tag are still there.
C7_Witness ==
    /\ now = FirstSweepTime
    /\ gc.pc = "sleeping"
    /\ gc.sweeps = 1
    /\ gc.since = StartTime
    /\ gc.failed = {}
    /\ \A x \in OldResources :
          x \in inventory <=> now - x.createdAt <= garbageCollectorResourceAge
    /\ \E x \in inventory :
          Tagged(x) /\ now - x.createdAt = garbageCollectorResourceAge
    /\ \E x \in OldResources : x \notin inventory
    /\ \E x \in inventory : ~Tagged(x) /\ Stale(x, now)

----------------------------------------------------------------------------
(* C8, C9 *)

\* The parameter is absent, empty or not a duration.
Unusable(param) == param = <<>> \/ ~ParseParam(param).ok

\* C8: a request whose timeout parameter is absent, empty or not a duration
\* runs under the configured default timeout, starts every enabled probe and
\* gets a response.
C8_DefaultOnBadParam ==
    \A r \in Slots :
        (req[r].pc # "idle" /\ Unusable(req[r].param)) =>
            /\ req[r].timeout = cfg.requestTimeout
            /\ req[r].deadline = req[r].startedAt + ExpirySeconds(cfg.requestTimeout)
            /\ \A p \in Enabled(cfg) : probe[r][p].st # "off"
            /\ Responded(r) => response[r].emitted
            /\ (req[r].pc = "wait" /\ \A p \in Probes : ~Running(r, p))
                   => ENABLED HandlerServe(r)

\* A request with a parameter that is not a duration was served.
C8_Witness ==
    \E r \in Slots :
        /\ req[r].pc = "done"
        /\ req[r].param # <<>>
        /\ ~ParseParam(req[r].param).ok
        /\ response[r].emitted
        /\ \E p \in Probes : probe[r][p].outcome = "success"

\* C9: a request whose timeout parameter is a duration runs under a deadline
\* that is its start plus that duration.
C9_ParamSetsDeadline ==
    \A r \in Slots :
        (req[r].pc # "idle" /\ ~Unusable(req[r].param)) =>
            /\ req[r].timeout = ParseParam(req[r].param).val
            /\ req[r].deadline =
                   req[r].startedAt + ExpirySeconds(ParseParam(req[r].param).val)

----------------------------------------------------------------------------
(* C10 *)

\* C10: every name createName produced parses back to the fixed tag and to
\* the second it was created at.
C10_NameRoundTrip ==
    \A x \in inventory :
        ParseName(x.name) = [ok |-> TRUE, tag |-> resourceTag, ts |-> x.createdAt]

\* Names created with every random draw, the all-digit one included, at a
\* ten-digit second.
C10_Witness ==
    /\ now = 1700000000
    /\ Cardinality(inventory) = MaxDraws
    /\ \E x \in inventory : AllDigits(SubSeq(x.name, Len(resourceTag) + 2, Len(resourceTag) + 9))

----------------------------------------------------------------------------
(* C11 *)

\* C11: every request gets its response: a request the handler has accepted
\* leads to the response being written and the handler returning, whether its
\* probes succeed, fail on a provider error or time out; and a request that
\* has been answered has a written response.
C11_AlwaysResponds ==
    /\ [](\A r \in Slots : Responded(r) => response[r].emitted)
    /\ \A r \in Slots :
           (req[r].pc = "wait") ~> (response[r].emitted /\ req[r].pc = "done")

\* A request was answered although one probe failed on a provider error and
\* the other timed out.
C11_Witness ==
    \E r \in Slots : \E p, q \in Probes :
        /\ req[r].pc = "done"
        /\ response[r].emitted
        /\ probe[r][p].outcome = "provider_error"
        /\ probe[r][q].outcome = "timeout"

----------------------------------------------------------------------------
(* C12 *)

\* C12: the step in which step() reports the deadline to a probe ends the
\* probe where it is and touches nothing at the provider; from then on the
\* probe publishes nothing and moves no further, and if what it created
\* disappears, a sweep of the collector removed it.
C12_AbandonOnTimeout ==
    [][\A r \in Slots : \A p \in Probes :
          /\ (probe[r][p].st = "select" /\ probe'[r][p].outcome = "timeout") =>
                 /\ probe'[r][p].st = "returned"
                 /\ probe'[r][p].phase = probe[r][p].phase
                 /\ timing'[r][p] = timing[r][p]
                 /\ inventory' = inventory
          /\ (probe[r][p].outcome = "timeout" /\ scrapes' = scrapes) =>
                 /\ probe'[r][p] = probe[r][p]
                 /\ timing'[r][p] = timing[r][p]
                 /\ \A x \in Held(r, p) : x \notin inventory' => SweepStep]_vars

\* A probe gave up before its delete phase and what it created is still at
\* the provider.
C12_Witness ==
    \E r \in Slots : \E p \in Probes :
        /\ Abandoned(r, p)
        /\ probe[r][p].phase < Len(Phases)
        /\ Held(r, p) # {}

----------------------------------------------------------------------------
(* C13 *)

\* The order of the phases the specification fixes.
FixedOrder == <<"create", "ready", "exercise", "delete">>

\* C13: the steps a probe has published are always the first phases of the
\* fixed order; a probe is in phase n only once the n-1 phases before it are
\* published, and moves on by one phase, after publishing the step of the
\* phase it leaves; a running probe can take its step whatever phase the
\* other probe is in.
C13_PhasesInOrder ==
    /\ [](\A r \in Slots : \A p \in Probes :
            LET n == Len(timing[r][p].steps)
            IN  /\ timing[r][p].steps = SubSeq(FixedOrder, 1, n)
                /\ probe[r][p].st = "call" => n = probe[r][p].phase - 1
                /\ probe[r][p].st = "select" => n = probe[r][p].phase
                /\ Running(r, p) =>
                       ENABLED (ProbeCall(r, p) \/ ProbeFail(r, p) \/ StepSelect(r, p)))
    /\ [][\A r \in Slots : \A p \in Probes :
            (probe'[r][p].phase # probe[r][p].phase /\ scrapes' = scrapes) =>
                /\ probe'[r][p].phase = probe[r][p].phase + 1
                /\ probe[r][p].st = "select"
                /\ Len(timing[r][p].steps) = probe[r][p].phase]_vars

\* One probe has published all four steps while the other has not finished
\* its first phase.
C13_Witness ==
    \E r \in Slots : \E p, q \in Probes :
        /\ timing[r][p].steps = FixedOrder
        /\ probe[r][q].st = "call" /\ probe[r][q].phase = 1
        /\ timing[r][q].steps = <<>>

----------------------------------------------------------------------------
(* C14 *)

\* C14: in a sweep where the delete of a candidate fails, every other tagged
\* resource older than the retention age is still deleted, the resource whose
\* delete failed stays, and the collector goes back to sleep for the fixed
\* interval, from which the next sweep starts.
C14_SweepContinuesPastFailure ==
    [][SweepDone =>
          /\ gc'.failed \subseteq StaleTagged(inventory, now)
          /\ \A x \in StaleTagged(inventory, now) \ gc'.failed : x \notin inventory'
          /\ gc'.failed \subseteq inventory'
          /\ gc'.pc = "sleeping"
          /\ gc'.wakeAt = now + garbageCollectorSleep]_vars

\* The second sweep: the delete of one probe's resource failed and the
\* resource is still there, while the resource the other probe created in
\* the same second was deleted by that sweep.
C14_Witness ==
    \E r \in Slots : \E p, q \in Probes :
        /\ p # q
        /\ gc.sweeps = 2
        /\ Held(r, p) # {}
        /\ gc.failed = Held(r, p)
        /\ \A x \in gc.failed : x.createdAt = StartTime + TickSeconds
        /\ Owns(r, q) /\ ~Running(r, q)
        /\ Held(r, q) = {}
        /\ NameAge(probe[r][q].res, now) = TickSeconds

----------------------------------------------------------------------------
(* C16 *)

\* The collector was stopped and started again.
RestartStep == gc.pc = "sleeping" /\ gc'.since # gc.since

\* C16 as stated: the age the collector computes for a tagged resource is
\* the current second minus the second in its name, and a restart of the
\* collector neither delays nor advances a deletion: the sweep in which the
\* resources then older than the retention age are deleted is due at the
\* second it was due at before.
C16_RestartKeepsSchedule ==
    /\ [](\A x \in inventory :
            HasTag(x.name) => NameAge(x.name, now) = now - x.createdAt)
    /\ [][RestartStep => gc'.wakeAt = gc.wakeAt]_vars

\* C16, amended: the age the collector computes for a tagged resource is the
\* current second minus the second the resource was created at, which its
\* name carries; every sweep, however long ago the collector was started or
\* restarted, deletes exactly the tagged resources older than the retention
\* age at the second of the sweep whose delete did not fail; a restart starts
\* a new sleep, so that the next sweep is due one sleep after the restart,
\* never before the second it was due at.
C16_AgeFromName ==
    /\ [](\A x \in inventory :
            HasTag(x.name) => NameAge(x.name, now) = now - x.createdAt)
    /\ [][SweepDone =>
             /\ Candidates(inventory, now) = StaleTagged(inventory, now)
             /\ inventory \ inventory' = StaleTagged(inventory, now) \ gc'.failed]_vars
    /\ [][RestartStep =>
             /\ gc.wakeAt <= gc'.wakeAt
             /\ gc'.wakeAt <= now + garbageCollectorSleep]_vars

\* The collector was restarted when its first sleep was over, and the first
\* sweep after the restart, one sleep later, deleted the resources of earlier
\* lifetimes, among them the one that was below the retention age at the
\* restart: the collector had been running for less than the retention age.
C16_Witness ==
    /\ gc.since = FirstSweepTime
    /\ now = FirstSweepTime + garbageCollectorSleep
    /\ now - gc.since <= garbageCollectorResourceAge
    /\ gc.pc = "sleeping"
    /\ gc.sweeps = 1
    /\ gc.failed = {}
    /\ OldResources \cap inventory = {}
    /\ \E t \in OldTimes : gc.since - t < garbageCollectorResourceAge

----------------------------------------------------------------------------
(* C17 *)

\* C17: the collector is started by main, in the step in which main begins
\* to serve, and by nothing else; from then on it is always there, asleep or
\* sweeping; no request exists before it was started; a sweep starts only
\* when the sleep is over and is followed by a sleep of the fixed interval;
\* and whenever the sleep is over a sweep follows, whatever requests and
\* probes are doing.
C17_CollectorAlwaysRuns ==
    /\ [](mainpc = "serving" <=> gc.pc = "sleeping")
    /\ [](\A r \in Slots : req[r].pc # "idle" => gc.pc = "sleeping")
    /\ [][gc'.pc # gc.pc =>
             mainpc = "start" /\ mainpc' = "serving" /\ gc'.pc = "sleeping"]_vars
    /\ [][SweepDone =>
             now >= gc.wakeAt /\ gc'.wakeAt = now + garbageCollectorSleep]_vars
    /\ [](gc.pc = "sleeping" /\ now >= gc.wakeAt => ENABLED GCSweep({}))
    /\ (gc.pc = "sleeping" /\ now >= gc.wakeAt) ~> (now < gc.wakeAt)

\* Two sweeps have run, with a scrape in which one probe failed on a
\* provider error and the other timed out.
C17_Witness ==
    \E r \in Slots : \E p, q \in Probes :
        /\ gc.sweeps = 2
        /\ req[r].pc = "done"
        /\ probe[r][p].outcome = "provider_error"
        /\ probe[r][q].outcome = "timeout"

----------------------------------------------------------------------------
(* C15 *)

\* C15: the shared context of a request is done once its deadline has passed
\* and once the incoming request was cancelled: no probe of a request whose
\* client has gone away is still running under a context that is not done.
C15_ParentCancelUnblocks ==
    \A r \in Slots :
        /\ now >= req[r].deadline /\ req[r].pc # "idle" => CtxDone(r)
        /\ req[r].parentDone =>
               \A p \in Probes : Running(r, p) => CtxDone(r)

----------------------------------------------------------------------------
(* C18 *)

\* C18: while a probe is running and the deadline of its request has not
\* passed, the shared context is not cancelled: the handler's deferred
\* cancel() runs only after every probe it started has returned.
C18_NoEarlyCancel ==
    \A r \in Slots : \A p \in Probes :
        (Running(r, p) /\ now < req[r].deadline) => ~req[r].cancelled

----------------------------------------------------------------------------
(* C19 *)

\* The step changes something of the request in slot r: its handler, its
\* probes, its registry or its response.
Touched(r) ==
    \/ req'[r] # req[r]
    \/ probe'[r] # probe[r]
    \/ timing'[r] # timing[r]
    \/ response'[r] # response[r]

\* C19: of requests served at the same time, a probe times out only when the
\* context of its own request is done, a context is cancelled only by the
\* return of its own handler, a response holds the registry of its own
\* request, and no step of one request changes anything of another.
C19_RequestsIsolated ==
    /\ [](\A r \in Slots : \A p \in Probes :
            probe[r][p].outcome = "timeout" =>
                (req[r].cancelled \/ now >= req[r].deadline))
    /\ [](\A r \in Slots : req[r].cancelled => req[r].pc = "done")
    /\ [](\A r \in Slots : response[r].emitted => response[r].body = timing[r])
    /\ [][\A r, s \in Slots : (r # s /\ Touched(r)) => ~Touched(s)]_vars

\* Two requests were answered: the context of one had expired before the
\* other was accepted; a probe of the first timed out, every probe of the
\* second that was started succeeded, and the two responses differ.
C19_Witness ==
    \E r, s \in Slots : \E p, q \in Probes :
        /\ r # s
        /\ req[s].pc = "done" /\ req[r].pc = "done"
        /\ req[r].startedAt >= req[s].deadline
        /\ probe[s][p].outcome = "timeout"
        /\ probe[r][q].outcome = "success"
        /\ \A e \in Enabled(cfg) : probe[r][e].outcome = "success"
        /\ response[r].emitted /\ response[s].emitted
        /\ response[r].body # response[s].body

====
